---- MODULE Spec2Model ----
(***************************************************************************)
(* eyconf: a Config object owning one dataclass instance, validated        *)
(* against the JSON schema compiled from its dataclass type, mutated by    *)
(* update / overwrite / reset.                                             *)
(*                                                                         *)
(* Python values are tagged records, so that values of different Python    *)
(* types can be compared:                                                  *)
(*   int, str, bool, None      leaves                                      *)
(*   Dict                      a dict as it is iterated (ordered items);   *)
(*                             the form of every input of the program      *)
(*   Map                       a dict as it is compared (key -> value)     *)
(*   List                      a list                                      *)
(*   Dc                        a dataclass instance: its type, its object  *)
(*                             identity (oid, 0 = not yet allocated), its  *)
(*                             declared fields f and the other attributes  *)
(*                             of its __dict__ (x)                         *)
(***************************************************************************)
EXTENDS Integers, Sequences, FiniteSets, TLC

VARIABLES cls, _schema, _data, _extra_data, _json_schema, last

\* A call of a library function that is under way: the function and its arguments, the
\* stack it works on, the types it has been through (visited, or the schema cache), and
\* what it has returned or yielded
VARIABLES call, stack, visited, outcome

conf == <<cls, _schema, _data, _extra_data, _json_schema, last>>

lib == <<call, stack, visited, outcome>>

vars == <<cls, _schema, _data, _extra_data, _json_schema, last, call, stack, visited, outcome>>

-----------------------------------------------------------------------------
(* Values *)

I(n) == [k |-> "int", i |-> n]
S(s) == [k |-> "str", s |-> s]
B(b) == [k |-> "bool", b |-> b]
None == [k |-> "none"]
Dict(items) == [k |-> "dict", items |-> items]
Map(m) == [k |-> "map", m |-> m]
List(e) == [k |-> "list", e |-> e]
Dc(t, o, f, x) == [k |-> "dc", type |-> t, oid |-> o, f |-> f, x |-> x]
AttributeDict(m) == [k |-> "attrdict", m |-> m]

Empty == [n \in {} |-> None]

Put(m, key, v) == [n \in DOMAIN m \cup {key} |-> IF n = key THEN v ELSE m[n]]

Merge(a, b) == [n \in DOMAIN a \cup DOMAIN b |-> IF n \in DOMAIN b THEN b[n] ELSE a[n]]

Range(s) == {s[j] : j \in DOMAIN s}

\* dict(items): a later item with the same key replaces an earlier one
ItemsMap(items) == [key \in {it[1] : it \in Range(items)} |-> LET j == CHOOSE j \in DOMAIN items : items[j][1] = key /\ \A h \in DOMAIN items : items[h][1] = key => h <= j IN items[j][2]]

\* Results of calls that may raise: err = "" is a normal return
Ok(v) == [err |-> "", v |-> v]
Raise(e) == [err |-> e, v |-> None]

\* x = value, then Then(x): the value of a call, computed once where it is made
Bind(value, Then(_)) == Then(value)

-----------------------------------------------------------------------------
(* Types: the annotations of the dataclasses *)

TInt == [k |-> "prim", p |-> "int"]
TStr == [k |-> "prim", p |-> "str"]
TNone == [k |-> "NoneType"]
TDc(t) == [k |-> "dataclass", t |-> t]
TUnion(args) == [k |-> "Union", args |-> args]
TDict(kt, vt) == [k |-> "dict", kt |-> kt, vt |-> vt]
TList(et) == [k |-> "list", et |-> et]
TNotRequired(t) == [k |-> "NotRequired", t |-> t]
\* typing.Optional[t]: its origin is typing.Union, not types.UnionType
TOptional(t) == [k |-> "typing.Union", args |-> <<t, TNone>>]
TAnnotated(t) == [k |-> "Annotated", t |-> t]

Field(name, alias, type) == [name |-> name, alias |-> alias, type |-> type]

\* dataclasses.fields(t), in declaration order; alias "" is no alias.
\* SchemaDict is the test's type with a sequence field beside the mapping.
\* ConfigAliasedParent holds a record under an aliased field.
\* Item is the test's record type; AnnotatedItems to Index hold it under the wrappers
\* Annotated[Item | None, ...], Optional[Item], list[Item] | None, dict[str, Item] | None,
\* list[list[Item]] and dict[str, list[Item]].
\* Keyword declares a field under the name of a schema keyword.
\* UnionConfig has a union whose first alternative is a primitive, Config42Derived is
\* class Config42Derived(Config42AllowAdditional), Ping and Pong refer to each other.
fields(t) ==
  CASE t = "Config42" -> <<Field("int_field", "", TInt), Field("str_field", "", TStr)>>
    [] t = "Config42AllowAdditional" -> <<Field("int_field", "", TInt), Field("str_field", "", TStr)>>
    [] t = "ConfigNested" -> <<Field("nested", "", TDc("Config42")), Field("nested_optional", "", TUnion(<<TDc("Config42"), TNone>>)), Field("other_field", "", TStr)>>
    [] t = "SchemaDict" -> <<Field("folders", "", TDict(TStr, TDc("Config42"))), Field("tags", "", TList(TInt))>>
    [] t = "AliasConfig" -> <<Field("attr_field", "dict_field", TInt), Field("str_field", "", TStr)>>
    [] t = "NestedAliasConfig" -> <<Field("nested", "", TDc("AliasConfig")), Field("other_field", "", TStr)>>
    [] t = "ConfigAliasedParent" -> <<Field("import_", "import", TDc("Config42"))>>
    [] t = "UnionConfig" -> <<Field("value", "", TUnion(<<TStr, TDc("Config42")>>))>>
    [] t = "Config42Derived" -> <<Field("int_field", "", TInt), Field("str_field", "", TStr)>>
    [] t = "MyTypedDict1" -> <<Field("foo", "", TNotRequired(TStr)), Field("bar", "", TNotRequired(TInt))>>
    [] t = "TreeNode" -> <<Field("value", "", TInt), Field("children", "", TList(TDc("TreeNode")))>>
    [] t = "Shared" -> <<Field("value", "", TInt)>>
    [] t = "Container" -> <<Field("first", "", TDc("Shared")), Field("second", "", TDc("Shared")), Field("items", "", TList(TDc("Shared")))>>
    [] t = "Ping" -> <<Field("pong", "", TUnion(<<TDc("Pong"), TNone>>))>>
    [] t = "Pong" -> <<Field("ping", "", TList(TDc("Ping")))>>
    [] t = "Item" -> <<Field("name", "", TStr)>>
    [] t = "Keyword" -> <<Field("type", "", TStr), Field("name", "", TStr)>>
    [] t = "AnnotatedItems" -> <<Field("items", "", TAnnotated(TUnion(<<TDc("Item"), TNone>>)))>>
    [] t = "OptionalItem" -> <<Field("items", "", TOptional(TDc("Item")))>>
    [] t = "OptionalItems" -> <<Field("items", "", TUnion(<<TList(TDc("Item")), TNone>>))>>
    [] t = "OptionalFolders" -> <<Field("items", "", TUnion(<<TDict(TStr, TDc("Item")), TNone>>))>>
    [] t = "Grid" -> <<Field("items", "", TList(TList(TDc("Item"))))>>
    [] t = "Index" -> <<Field("items", "", TDict(TStr, TList(TDc("Item"))))>>

FieldNames(t) == {fields(t)[j].name : j \in DOMAIN fields(t)}

FieldOf(t, name) == fields(t)[CHOOSE j \in DOMAIN fields(t) : fields(t)[j].name = name]

\* The class and its base classes: class Config42Derived(Config42AllowAdditional)
__mro__(t) == IF t = "Config42Derived" THEN {"Config42Derived", "Config42AllowAdditional"} ELSE {t}

\* The classes under the decorator @allow_additional
Decorated == {"Config42AllowAdditional"}

\* The attributes set on the class by the allow_additional decorator, as getattr finds
\* them: those of the class and those of its base class
ClassAttrs(t) == {"_" \o a \o "__allow_additional" : a \in __mro__(t) \cap Decorated}

MISSING == [k |-> "MISSING"]

RECURSIVE DefaultOf(_, _)
RECURSIVE New(_, _)

\* The default (or default_factory result) of a field; MISSING when it has none
DefaultOf(t, name) ==
  CASE t \in {"Config42", "Config42AllowAdditional", "Config42Derived"} /\ name = "int_field" -> I(42)
    [] t \in {"Config42", "Config42AllowAdditional", "Config42Derived", "AliasConfig"} /\ name = "str_field" -> S("FortyTwo!")
    [] t = "ConfigNested" /\ name = "nested" -> New("Config42", Empty).v
    [] t = "ConfigNested" /\ name = "nested_optional" -> None
    [] t = "ConfigNested" /\ name = "other_field" -> S("Hello, World!")
    [] t = "SchemaDict" /\ name = "folders" -> Map([key \in {"placeholder"} |-> New("Config42", Empty).v])
    [] t = "SchemaDict" /\ name = "tags" -> List(<<I(42)>>)
    [] t = "NestedAliasConfig" /\ name = "nested" -> New("AliasConfig", Put(Empty, "attr_field", I(43))).v
    [] t = "NestedAliasConfig" /\ name = "other_field" -> S("Hello, World!")
    [] t = "ConfigAliasedParent" /\ name = "import_" -> New("Config42", Empty).v
    [] t = "UnionConfig" /\ name = "value" -> S("FortyTwo!")
    [] t = "Keyword" -> S("FortyTwo!")
    [] OTHER -> MISSING

\* t(**kwargs): the generated __init__; TypeError when a field without default is not given
New(t, kwargs) ==
  IF \E n \in FieldNames(t) : n \notin DOMAIN kwargs /\ DefaultOf(t, n) = MISSING
  THEN Raise("TypeError")
  ELSE Ok(Dc(t, 0, [n \in FieldNames(t) |-> IF n \in DOMAIN kwargs THEN kwargs[n] ELSE DefaultOf(t, n)], Empty))

-----------------------------------------------------------------------------
(* Attribute access on a dataclass instance *)

hasattr(target, key) == target.k = "dc" /\ (key \in FieldNames(target.type) \/ key \in DOMAIN target.x)

getattr(target, key) == IF key \in FieldNames(target.type) THEN target.f[key] ELSE target.x[key]

setattr(target, key, value) ==
  IF key \in FieldNames(target.type)
  THEN [target EXCEPT !.f = [target.f EXCEPT ![key] = value]]
  ELSE [target EXCEPT !.x = Put(target.x, key, value)]

-----------------------------------------------------------------------------
(* asdict.py: encode a dataclass instance as a plain dict, keyed by alias *)

ExtName(fld) == IF fld.alias # "" THEN fld.alias ELSE fld.name

ByExtName(t, key) == fields(t)[CHOOSE j \in DOMAIN fields(t) : ExtName(fields(t)[j]) = key]

\* The result.items of a dataclass instance: every declared field, under its alias if it has one
_alias_dict_factory(obj, items) == [key \in {ExtName(FieldOf(obj.type, n)) : n \in DOMAIN items} |-> items[ByExtName(obj.type, key).name]]

RECURSIVE _asdict_inner(_, _)

\* A nested dataclass gets the caller's kwargs; an element of a list or dict
\* gets dict_factory alone, so include_attributes falls back to False there.
_asdict_inner(obj, include_attributes) ==
  CASE obj.k = "dc" ->
         LET result == _alias_dict_factory(obj, [n \in FieldNames(obj.type) |-> _asdict_inner(obj.f[n], include_attributes)])
             extra_attrs == IF include_attributes THEN [a \in DOMAIN obj.x |-> _asdict_inner(obj.x[a], include_attributes)] ELSE Empty
         IN Map(Merge(result, extra_attrs))
    [] obj.k = "list" -> List([j \in DOMAIN obj.e |-> _asdict_inner(obj.e[j], FALSE)])
    [] obj.k = "map" -> Map([key \in DOMAIN obj.m |-> _asdict_inner(obj.m[key], FALSE)])
    [] obj.k = "dict" -> Map([key \in DOMAIN ItemsMap(obj.items) |-> _asdict_inner(ItemsMap(obj.items)[key], FALSE)])
    [] OTHER -> obj

asdict_with_aliases(obj) == _asdict_inner(obj, TRUE)

\* dataclasses.asdict: keyed by field name, declared fields only
RECURSIVE asdict(_)
asdict(obj) ==
  CASE obj.k = "dc" -> Dict([j \in DOMAIN fields(obj.type) |-> <<fields(obj.type)[j].name, asdict(obj.f[fields(obj.type)[j].name])>>])
    [] obj.k = "list" -> List([j \in DOMAIN obj.e |-> asdict(obj.e[j])])
    [] obj.k = "map" -> Map([key \in DOMAIN obj.m |-> asdict(obj.m[key])])
    [] OTHER -> obj

-----------------------------------------------------------------------------
(* utils.py: decode a plain dict into a dataclass instance *)

RECURSIVE _dataclass_from_dict_inner(_, _, _)
RECURSIVE UnionArgs(_, _, _, _)
RECURSIVE DataItems(_, _, _, _, _, _)
RECURSIVE FirstErr(_, _)

\* The first raised result of a sequence of results, or Ok
FirstErr(rs, j) == IF j > Len(rs) THEN "" ELSE IF rs[j].err # "" THEN rs[j].err ELSE FirstErr(rs, j + 1)

\* for arg in args: the first alternative that decodes wins; None when none does
UnionArgs(args, j, data, allow_additional) ==
  IF j > Len(args) THEN Ok(None)
  ELSE IF args[j] = TNone THEN UnionArgs(args, j + 1, data, allow_additional)
  ELSE Bind(_dataclass_from_dict_inner(args[j], data, allow_additional), LAMBDA r :
         IF r.err \in {"ValueError", "TypeError", "KeyError"} THEN UnionArgs(args, j + 1, data, allow_additional) ELSE r)

\* A variant of KeyToField that knows no alias
KeyToField_unaliased(t, key) == key

\* The field a key of the data names: by its alias, or by its name
KeyToField(t, key) == IF key \in {fields(t)[h].alias : h \in DOMAIN fields(t)} \ {""} THEN ByExtName(t, key).name ELSE key

Sorted(err, found_fields, additional_fields) == [err |-> err, found_fields |-> found_fields, additional_fields |-> additional_fields]

\* for key, value in data.items(): sort into found_fields and additional_fields
DataItems(t, items, j, found_fields, additional_fields, allow_additional) ==
  IF j > Len(items) THEN Sorted("", found_fields, additional_fields)
  ELSE IF KeyToField(t, items[j][1]) \in FieldNames(t)
  THEN Bind(_dataclass_from_dict_inner(FieldOf(t, KeyToField(t, items[j][1])).type, items[j][2], allow_additional), LAMBDA r :
         IF r.err # "" THEN Sorted(r.err, found_fields, additional_fields)
         ELSE DataItems(t, items, j + 1, Put(found_fields, KeyToField(t, items[j][1]), r.v), additional_fields, allow_additional))
  ELSE DataItems(t, items, j + 1, found_fields, Put(additional_fields, items[j][1], items[j][2]), allow_additional)

\* target_type(**found_fields), then the additional fields are set or refused
Construct(d, res, allow_additional) ==
  IF d.err # "" THEN Raise(d.err)
  ELSE IF res.err # "" THEN Raise("ValueError")
  ELSE IF allow_additional THEN Ok([res.v EXCEPT !.x = d.additional_fields])
  ELSE IF DOMAIN d.additional_fields # {} THEN Raise("ValueError")
  ELSE res

\* The decoded elements rs of a dict or a list, put together by Make; the first error is raised
Collect(rs, Make(_)) == IF FirstErr(rs, 1) # "" THEN Raise(FirstErr(rs, 1)) ELSE Ok(Make(rs))

_dataclass_from_dict_inner(target_type, data, allow_additional) ==
  IF target_type.k = "Union"
  THEN IF data.k = "none" /\ \E j \in DOMAIN target_type.args : target_type.args[j] = TNone
       THEN Ok(None)
       ELSE UnionArgs(target_type.args, 1, data, allow_additional)
  ELSE IF data.k = "dict" /\ target_type.k = "dataclass"
  THEN Bind(DataItems(target_type.t, data.items, 1, Empty, Empty, allow_additional), LAMBDA d :
         Construct(d, New(target_type.t, d.found_fields), allow_additional))
  ELSE IF data.k = "dict" /\ target_type.k = "dict"
  THEN Collect([j \in DOMAIN data.items |-> _dataclass_from_dict_inner(target_type.vt, data.items[j][2], allow_additional)],
               LAMBDA rs : Map(ItemsMap([j \in DOMAIN data.items |-> <<data.items[j][1], rs[j].v>>])))
  ELSE IF data.k = "list" /\ target_type.k = "list"
  THEN Collect([j \in DOMAIN data.e |-> _dataclass_from_dict_inner(target_type.et, data.e[j], allow_additional)],
               LAMBDA rs : List([j \in DOMAIN data.e |-> rs[j].v]))
  ELSE Ok(data)

\* Always returns a dataclass or a value: a None result is an error
dataclass_from_dict(in_type, data, allow_additional) ==
  Bind(_dataclass_from_dict_inner(in_type, data, allow_additional), LAMBDA result :
    IF result.err = "" /\ result.v = None THEN Raise("ValueError") ELSE result)

-----------------------------------------------------------------------------
(* decorators.py, validation/_to_json.py: compile the JSON schema of a type *)

\* getattr(schema, "_<name>__allow_additional", False)
check_allows_additional(t) == ("_" \o t \o "__allow_additional") \in ClassAttrs(t)

\* name -> metadata of each field (here: its alias, "" when it has none)
metadata_fields_from_dataclass(t) == [n \in FieldNames(t) |-> [alias |-> FieldOf(t, n).alias]]

primitive_type_mapping(p) == CASE p = "str" -> "string" [] p = "int" -> "integer" [] p = "float" -> "number" [] p = "bool" -> "boolean"

RECURSIVE to_json_schema(_, _)
RECURSIVE __convert_type_to_schema(_, _)

SetToSeq(set) == CHOOSE q \in [1..Cardinality(set) -> set] : \A a, b \in 1..Cardinality(set) : a # b => q[a] # q[b]

RECURSIVE AsData(_)
\* An encoded dict as the decoder iterates it: data.items()
AsData(v) ==
  CASE v.k = "map" -> Bind(SetToSeq(DOMAIN v.m), LAMBDA keys : Dict([j \in DOMAIN keys |-> <<keys[j], AsData(v.m[keys[j]])>>]))
    [] v.k = "list" -> List([j \in DOMAIN v.e |-> AsData(v.e[j])])
    [] OTHER -> v

\* (schema of the type, is_required); allow_additional is None, B(TRUE) or B(FALSE)
__convert_type_to_schema(field_type, allow_additional) ==
  CASE field_type.k = "Union" ->
         LET allowed_types == Range(field_type.args) \ {TNone}
             is_required == TNone \notin Range(field_type.args)
         IN IF Cardinality(allowed_types) > 1
            THEN <<Map([anyOf |-> List([j \in 1..Cardinality(allowed_types) |-> __convert_type_to_schema(SetToSeq(allowed_types)[j], allow_additional)[1]])]), is_required>>
            ELSE <<__convert_type_to_schema(CHOOSE a \in allowed_types : TRUE, allow_additional)[1], is_required>>
    [] field_type.k = "list" -> <<Map([type |-> S("array"), items |-> __convert_type_to_schema(field_type.et, allow_additional)[1]]), TRUE>>
    [] field_type.k = "dataclass" -> <<to_json_schema(field_type.t, allow_additional), TRUE>>
    [] field_type.k = "dict" -> <<Map([type |-> S("object"), patternProperties |-> Map([key \in {".*"} |-> __convert_type_to_schema(field_type.vt, allow_additional)[1]])]), TRUE>>
    [] field_type.k = "prim" -> <<Map([type |-> S(primitive_type_mapping(field_type.p))]), TRUE>>
    [] field_type.k = "NotRequired" -> <<__convert_type_to_schema(field_type.t, allow_additional)[1], FALSE>>

\* Properties are named by alias; a field is required when its type says so
to_json_schema(type, allow_additional) ==
  LET fieldname_to_metadata == metadata_fields_from_dataclass(type)
      fname(j) == IF fieldname_to_metadata[fields(type)[j].name].alias # "" THEN fieldname_to_metadata[fields(type)[j].name].alias ELSE fields(type)[j].name
      conv(j) == __convert_type_to_schema(fields(type)[j].type, allow_additional)
      idx(key) == CHOOSE j \in DOMAIN fields(type) : fname(j) = key
      required == SelectSeq([j \in DOMAIN fields(type) |-> IF conv(j)[2] THEN S(fname(j)) ELSE None], LAMBDA r : r # None)
  IN Map([type |-> S("object"),
          properties |-> Map([key \in {fname(j) : j \in DOMAIN fields(type)} |-> conv(idx(key))[1]]),
          required |-> List(required),
          additionalProperties |-> IF allow_additional = None THEN B(check_allows_additional(type)) ELSE allow_additional])

-----------------------------------------------------------------------------
(* validation/__init__.py: validate data against the schema *)

RECURSIVE allow_none_in_schema(_)

\* Adds "null" to the "type" entry of every dict of the document, in place
allow_none_in_schema(schema) ==
  IF schema.k = "map"
  THEN LET typed == IF "type" \notin DOMAIN schema.m THEN schema.m
                    ELSE IF schema.m["type"].k = "list"
                    THEN IF S("null") \notin Range(schema.m["type"].e)
                         THEN [schema.m EXCEPT !["type"] = List(Append(schema.m["type"].e, S("null")))]
                         ELSE schema.m
                    ELSE [schema.m EXCEPT !["type"] = List(<<schema.m["type"], S("null")>>)]
       IN Map([key \in DOMAIN typed |-> IF typed[key].k \in {"map", "list"} THEN allow_none_in_schema(typed[key]) ELSE typed[key]])
  ELSE IF schema.k = "list"
  THEN List([j \in DOMAIN schema.e |-> allow_none_in_schema(schema.e[j])])
  ELSE schema

\* The JSON type names of an instance
JsonTypes(inst) ==
  CASE inst.k = "map" -> {"object"}
    [] inst.k = "list" -> {"array"}
    [] inst.k = "str" -> {"string"}
    [] inst.k = "int" -> {"integer", "number"}
    [] inst.k = "bool" -> {"boolean"}
    [] inst.k = "none" -> {"null"}
    [] OTHER -> {}

RECURSIVE IsValid(_, _)

\* Draft202012Validator(schema).iter_errors(data) yields no error
IsValid(inst, schema) ==
  LET kw == schema.m
      props == IF "properties" \in DOMAIN kw THEN kw["properties"].m ELSE Empty
  IN /\ "type" \in DOMAIN kw =>
          IF kw["type"].k = "list"
          THEN \E j \in DOMAIN kw["type"].e : kw["type"].e[j].s \in JsonTypes(inst)
          ELSE kw["type"].s \in JsonTypes(inst)
     /\ ("properties" \in DOMAIN kw /\ inst.k = "map") =>
          \A key \in DOMAIN props \cap DOMAIN inst.m : IsValid(inst.m[key], props[key])
     /\ ("required" \in DOMAIN kw /\ inst.k = "map") =>
          \A j \in DOMAIN kw["required"].e : kw["required"].e[j].s \in DOMAIN inst.m
     /\ ("patternProperties" \in DOMAIN kw /\ inst.k = "map") =>
          \A key \in DOMAIN inst.m : IsValid(inst.m[key], kw["patternProperties"].m[".*"])
     /\ ("additionalProperties" \in DOMAIN kw /\ inst.k = "map" /\ "patternProperties" \notin DOMAIN kw) =>
          (kw["additionalProperties"].b \/ DOMAIN inst.m \subseteq DOMAIN props)
     /\ ("items" \in DOMAIN kw /\ inst.k = "list") =>
          \A j \in DOMAIN inst.e : IsValid(inst.e[j], kw["items"])
     /\ "anyOf" \in DOMAIN kw =>
          \E j \in DOMAIN kw["anyOf"].e : IsValid(inst, kw["anyOf"].e[j])

RECURSIVE Descends(_, _)

\* The validator comes to a subschema that is not a schema node (a list) on its way
\* through the instance
Descends(inst, schema) ==
  \/ schema.k # "map"
  \/ /\ "properties" \in DOMAIN schema.m /\ inst.k = "map"
     /\ \E key \in DOMAIN schema.m["properties"].m \cap DOMAIN inst.m : Descends(inst.m[key], schema.m["properties"].m[key])
  \/ /\ "patternProperties" \in DOMAIN schema.m /\ inst.k = "map"
     /\ \E key \in DOMAIN inst.m : Descends(inst.m[key], schema.m["patternProperties"].m[".*"])
  \/ /\ "items" \in DOMAIN schema.m /\ inst.k = "list"
     /\ \E j \in DOMAIN inst.e : Descends(inst.e[j], schema.m["items"])

\* A variant of validate_json that reports no error
validate_json_lenient(json_data, schema) == [err |-> "", schema |-> allow_none_in_schema(schema)]

\* Returns the error raised ("" for none) and the schema document as the call leaves it;
\* the validator raises AttributeError on a subschema that is a list
validate_json(json_data, schema) ==
  Bind(allow_none_in_schema(schema), LAMBDA nullable :
    [err |-> IF Descends(json_data, nullable) THEN "AttributeError"
             ELSE IF IsValid(json_data, nullable) THEN "" ELSE "MultiConfigurationError",
     schema |-> nullable])

\* validation.validate with a compiled schema: a dataclass instance is encoded first
validate(in_data, schema) ==
  validate_json(IF in_data.k = "dc" THEN asdict_with_aliases(in_data) ELSE _asdict_inner(in_data, FALSE), schema)

-----------------------------------------------------------------------------
(* Object identity. The oid of an instance tells which object it is as far as one call
   can tell: 0 an object the call made, 1 an object the configuration held when the
   call began, 2 an object of the caller's. Objects of one oid differ by their place. *)

RECURSIVE Born(_, _)
\* The tree with every instance given the identity id
Born(v, id) ==
  CASE v.k = "dc" -> [v EXCEPT !.oid = id,
                               !.f = [n \in DOMAIN v.f |-> Born(v.f[n], id)],
                               !.x = [a \in DOMAIN v.x |-> Born(v.x[a], id)]]
    [] v.k = "map" -> Map([key \in DOMAIN v.m |-> Born(v.m[key], id)])
    [] v.k = "list" -> List([j \in DOMAIN v.e |-> Born(v.e[j], id)])
    [] OTHER -> v

\* The tree the configuration holds, as a call finds it
Held(v) == Born(v, 1)

\* An instance the caller made
Passed(v) == Born(v, 2)

RECURSIVE deepcopy(_)
\* copy.deepcopy: an equal tree of new objects
deepcopy(v) ==
  CASE v.k = "dc" -> Dc(v.type, 0, [n \in DOMAIN v.f |-> deepcopy(v.f[n])], [a \in DOMAIN v.x |-> deepcopy(v.x[a])])
    [] v.k = "map" -> Map([key \in DOMAIN v.m |-> deepcopy(v.m[key])])
    [] v.k = "list" -> List([j \in DOMAIN v.e |-> deepcopy(v.e[j])])
    [] OTHER -> v

-----------------------------------------------------------------------------
(* config/base.py: Config.update *)

\* get_type_hints raises TypeError for what is no class (a Union annotation)
get_type_hints_resolve_namespace(target_type) ==
  IF target_type.k = "dataclass"
  THEN Ok([n \in FieldNames(target_type.t) |-> FieldOf(target_type.t, n).type])
  ELSE Raise("TypeError")

\* The items of the patch, each key resolved to the field it is the alias of
dict_items_resolve_aliases(update_data, t) ==
  [j \in DOMAIN update_data.items |->
     LET key == update_data.items[j][1]
     IN <<IF \E h \in DOMAIN fields(t) : fields(t)[h].alias = key /\ key # "" THEN ByExtName(t, key).name ELSE key, update_data.items[j][2]>>]

\* What a call of _update leaves: the target as mutated so far, and the error it raised
Updated(target, err, at) == [target |-> target, err |-> err, at |-> at]

\* A variant of Config._update_additional whose message names the leaf alone
Config__update_additional_leaf(value, path) ==
  [err |-> "AttributeError", at |-> <<path[Len(path)].type, path[Len(path)].key>>]

\* Config._update_additional: always raises, naming the path from the root type
Config__update_additional(value, path) ==
  [err |-> "AttributeError", at |-> <<path[1].type>> \o [j \in DOMAIN path |-> path[j].key]]

\* ConfigExtra._update_additional(self, target, key, value, _current_path), called as
\* self._update_additional(value, path=...): path is no parameter of it, the call raises
ConfigExtra__update_additional(value, path) ==
  [err |-> "TypeError", at |-> <<>>]

\* A variant of _update_additional that takes the unknown key without complaint
_update_additional_silent(self, value, path) ==
  [err |-> "", at |-> <<>>]

_update_additional(self, value, path) ==
  IF self = "ConfigExtra" THEN ConfigExtra__update_additional(value, path) ELSE Config__update_additional(value, path)

TypeName(target) == IF target.k = "dc" THEN target.type ELSE "NoneType"

RECURSIVE _update(_, _, _, _, _)
RECURSIVE UpdateItems(_, _, _, _, _, _)

\* path + [(target, key)]
Extended(path, target, key) == Append(path, [type |-> TypeName(target), key |-> key])

\* A variant of SetDecoded that keeps the entries of a mapping that the patch does not name
SetDecoded_merging(self, target_annotations, target, items, j, path) ==
  Bind(dataclass_from_dict(target_annotations[items[j][1]], items[j][2], FALSE), LAMBDA nested :
    IF nested.err # "" THEN Updated(target, nested.err, <<>>)
    ELSE UpdateItems(self, target_annotations,
                     setattr(target, items[j][1],
                             IF nested.v.k = "map" /\ getattr(target, items[j][1]).k = "map"
                             THEN Map(Merge(getattr(target, items[j][1]).m, nested.v.m)) ELSE nested.v),
                     items, j + 1, path))

\* setattr(target, key, dataclass_from_dict(current_annotation, value)), then the next item
SetDecoded(self, target_annotations, target, items, j, path) ==
  IF items[j][1] \notin DOMAIN target_annotations THEN Updated(target, "KeyError", <<>>)
  ELSE Bind(dataclass_from_dict(target_annotations[items[j][1]], items[j][2], FALSE), LAMBDA nested :
         IF nested.err # "" THEN Updated(target, nested.err, <<>>)
         ELSE UpdateItems(self, target_annotations, setattr(target, items[j][1], nested.v), items, j + 1, path))

\* for key, value in dict_items_resolve_aliases(update_data, target_type)
UpdateItems(self, target_annotations, target, items, j, path) ==
  IF j > Len(items) THEN Updated(target, "", <<>>)
  ELSE IF ~hasattr(target, items[j][1])
  THEN Bind(_update_additional(self, items[j][2], Extended(path, target, items[j][1])), LAMBDA r :
         IF r.err # "" THEN Updated(target, r.err, r.at)
         ELSE UpdateItems(self, target_annotations, target, items, j + 1, path))
  ELSE IF getattr(target, items[j][1]).k = "dc"
  THEN IF items[j][1] \notin DOMAIN target_annotations THEN Updated(target, "KeyError", <<>>)
       ELSE Bind(_update(self, target_annotations[items[j][1]], getattr(target, items[j][1]), items[j][2], Extended(path, target, items[j][1])), LAMBDA r :
              IF r.err # "" THEN Updated(setattr(target, items[j][1], r.target), r.err, r.at)
              ELSE UpdateItems(self, target_annotations, setattr(target, items[j][1], r.target), items, j + 1, path))
  ELSE IF (getattr(target, items[j][1]).k = "none" /\ items[j][2].k = "dict") \/ items[j][1] \in DOMAIN target_annotations
  THEN SetDecoded(self, target_annotations, target, items, j, path)
  ELSE UpdateItems(self, target_annotations, setattr(target, items[j][1], items[j][2]), items, j + 1, path)

\* A variant of _update that builds a new instance from the patch alone
_update_rebuilding(self, target_type, target, update_data, path) ==
  Bind(dataclass_from_dict(target_type, update_data, FALSE), LAMBDA made :
    IF made.err # "" THEN Updated(target, made.err, <<>>) ELSE Updated(made.v, "", <<>>))

_update(self, target_type, target, update_data, path) ==
  Bind(get_type_hints_resolve_namespace(target_type), LAMBDA target_annotations :
    IF target_annotations.err # "" THEN Updated(target, target_annotations.err, <<>>)
    ELSE IF update_data.k # "dict" THEN Updated(target, "AttributeError", <<>>)
    ELSE UpdateItems(self, target_annotations.v, target, dict_items_resolve_aliases(update_data, target_type.t), 1, path))

\* What a method of the Config leaves: its _data, its _json_schema and the error it raised
Left(d, js, err, at) == [data |-> d, json_schema |-> js, err |-> err, at |-> at]

\* A variant of the except clause that re-raises without restoring the snapshot
Validated_unrestored(old_data, self_data, v) ==
  Left(self_data, v.schema, v.err, <<>>)

\* try: self.validate() except Exception: self._data = old_data; raise
Validated(old_data, self_data, v) ==
  IF v.err # "" THEN Left(old_data, v.schema, v.err, <<>>) ELSE Left(self_data, v.schema, "", <<>>)

\* Config.update: the snapshot is restored only when validation raises
update(self, self_schema, self_data, self_json_schema, patch) ==
  Bind(_update(self, TDc(self_schema), self_data, patch, <<>>), LAMBDA r :
    IF r.err # "" THEN Left(r.target, self_json_schema, r.err, r.at)
    ELSE Validated(deepcopy(self_data), r.target, validate(r.target, self_json_schema)))

\* self._data = dataclass_from_dict(self._schema, data), after validate_json(data) raised nothing
Decoded(self_data, v, d) ==
  IF v.err # "" THEN Left(self_data, v.schema, v.err, <<>>)
  ELSE IF d.err # "" THEN Left(self_data, v.schema, d.err, <<>>)
  ELSE Left(d.v, v.schema, "", <<>>)

\* Config.to_dict
to_dict(self_data) == asdict_with_aliases(self_data)

\* A variant of overwrite that applies the map as update does, on the instance held
overwrite_updating(self_schema, self_data, self_json_schema, arg) ==
  update("Config", self_schema, self_data, self_json_schema, arg)

\* Config.overwrite
overwrite(self_schema, self_data, self_json_schema, arg) ==
  Bind(IF arg.k = "dc" THEN asdict(arg) ELSE arg, LAMBDA plain :
    Decoded(self_data, validate_json(_asdict_inner(plain, FALSE), self_json_schema), dataclass_from_dict(TDc(self_schema), plain, FALSE)))

\* Config.reset
reset(self_schema, self_data, self_json_schema) ==
  Bind(New(self_schema, Empty), LAMBDA d :
    IF d.err # "" THEN Left(self_data, self_json_schema, d.err, <<>>) ELSE Left(d.v, self_json_schema, "", <<>>))

\* Config.__init__ and ConfigExtra.__init__ with the schema given; data None is no object made
__init__(self, arg, self_schema) ==
  Bind(validate(arg, to_json_schema(self_schema, None)), LAMBDA v :
    IF v.err # "" THEN Left(None, v.schema, v.err, <<>>)
    ELSE IF arg.k = "dc" THEN Left(arg, v.schema, "", <<>>)
    ELSE IF self = "ConfigExtra" THEN update(self, self_schema, None, v.schema, arg)
    ELSE Decoded(None, v, dataclass_from_dict(TDc(self_schema), arg, FALSE)))

-----------------------------------------------------------------------------
(* The programs checked: the configurations of the test suites and what they are called with *)

MaxPatchLen == 2

Classes == {"Config", "ConfigExtra"}

Schemas(self) ==
  IF self = "Config" THEN {"Config42", "Config42AllowAdditional", "ConfigNested", "SchemaDict", "AliasConfig"}
  ELSE {"Config42", "ConfigNested"}

\* The record types of the configurations that are read and written through conf.data
ProxySchemas == {"Config42", "AliasConfig", "ConfigAliasedParent"}

\* The instance the tests construct a configuration from
InitialInstance(t) == New(t, IF t = "AliasConfig" THEN Put(Empty, "attr_field", I(42)) ELSE Empty).v

Changed42 == Dict(<<(<<"int_field", I(100)>>), (<<"str_field", S("new")>>)>>)

\* The items a patch is made of
KeyChoices(t) ==
  CASE t = "Config42" ->
         {<<"int_field", I(100)>>, <<"int_field", S("new")>>, <<"str_field", S("new")>>, <<"str_field", None>>,
          <<"new_field", S("new")>>}
    [] t = "Config42AllowAdditional" ->
         {<<"int_field", I(100)>>, <<"int_field", S("new")>>, <<"str_field", S("new")>>,
          <<"dynamic_field", S("new")>>}
    [] t = "ConfigNested" ->
         {<<"nested", Dict(<<(<<"int_field", I(100)>>)>>)>>,
          <<"nested", Dict(<<(<<"int_field", S("new")>>)>>)>>,
          <<"nested", Dict(<<(<<"str_field", S("new")>>), (<<"new_field", S("new")>>)>>)>>,
          <<"nested_optional", Dict(<<(<<"int_field", I(100)>>)>>)>>,
          <<"other_field", S("new")>>}
    [] t = "SchemaDict" ->
         {<<"folders", Dict(<<(<<"config1", Changed42>>), (<<"config2", Dict(<<>>)>>)>>)>>,
          <<"folders", Dict(<<(<<"config1", Dict(<<(<<"int_field", S("new")>>)>>)>>)>>)>>,
          <<"folders", Dict(<<(<<"config1", Dict(<<(<<"new_field", S("new")>>)>>)>>)>>)>>,
          <<"tags", List(<<I(100)>>)>>, <<"tags", List(<<S("new")>>)>>,
          <<"new_field", S("new")>>}
    [] t = "ConfigAliasedParent" ->
         {<<"import", Dict(<<(<<"int_field", I(100)>>)>>)>>, <<"import", Dict(<<(<<"new_field", S("new")>>)>>)>>,
          <<"new_field", S("new")>>}
    [] OTHER ->
         {<<"dict_field", I(100)>>, <<"dict_field", S("new")>>, <<"str_field", S("new")>>, <<"new_field", S("new")>>}

\* The patches: up to MaxPatchLen items with distinct keys, in every order
PatchesOf(t) ==
  {Dict(q) : q \in {q \in UNION {[1..n -> KeyChoices(t)] : n \in 1..MaxPatchLen} :
                      \A a, b \in DOMAIN q : a # b => q[a][1] # q[b][1]}}

Patches == [t \in Schemas("Config") \cup ProxySchemas |-> PatchesOf(t)]

\* What overwrite and the constructor are called with: maps and instances
Arguments(t) ==
  CASE t \in {"Config42", "Config42AllowAdditional"} ->
         {Changed42, Dict(<<(<<"str_field", S("new")>>)>>),
          Dict(<<(<<"int_field", I(100)>>), (<<"str_field", S("new")>>), (<<"extra_field", S("new")>>)>>),
          Passed(New(t, Put(Empty, "int_field", S("new"))).v)}
    [] t = "ConfigNested" ->
         {Dict(<<(<<"nested", Changed42>>), (<<"nested_optional", Changed42>>), (<<"other_field", S("new")>>)>>),
          Dict(<<(<<"other_field", S("new")>>)>>),
          Passed(New(t, Put(Empty, "nested_optional", New("Config42", Empty).v)).v)}
    [] t = "SchemaDict" ->
         {Dict(<<(<<"folders", Dict(<<(<<"config1", Changed42>>)>>)>>), (<<"tags", List(<<I(100)>>)>>)>>),
          Dict(<<(<<"folders", Dict(<<>>)>>)>>),
          Passed(New(t, Put(Empty, "tags", List(<<>>))).v)}
    [] OTHER ->
         {Dict(<<(<<"dict_field", I(100)>>), (<<"str_field", S("new")>>)>>),
          Dict(<<(<<"attr_field", I(100)>>), (<<"str_field", S("new")>>)>>),
          Passed(New(t, Put(Empty, "attr_field", I(100))).v)}

-----------------------------------------------------------------------------
(* The state machine: one Config or ConfigExtra object and the calls made on it *)

Called(op, arg, err, at, pre) == [op |-> op, arg |-> arg, err |-> err, at |-> at, pre |-> pre]

\* The object after conf = cls(schema()) of the test suites
Init ==
  \E self \in Classes : \E t \in Schemas(self) :
    \E made \in {__init__(self, Passed(InitialInstance(t)), t)} :
       /\ cls = self
       /\ _schema = t
       /\ _data = made.data
       /\ _extra_data = IF self = "ConfigExtra" THEN AttributeDict(Empty) ELSE None
       /\ _json_schema = made.json_schema
       /\ last = Called("__init__", None, made.err, made.at, None)
       /\ call = None /\ stack = <<>> /\ visited = {} /\ outcome = None

\* What every method leaves of the object
Returns(op, arg, res) ==
  /\ _data' = res.data
  /\ _json_schema' = res.json_schema
  /\ last' = Called(op, arg, res.err, res.at, Held(_data))
  /\ UNCHANGED <<cls, _schema, _extra_data>>
  /\ UNCHANGED lib

\* conf.update(patch)
CallUpdate ==
  \E patch \in Patches[_schema] :
    Returns("update", patch, update(cls, _schema, Held(_data), _json_schema, patch))

\* conf.overwrite(arg)
CallOverwrite ==
  \E arg \in Arguments(_schema) :
    Returns("overwrite", arg, overwrite(_schema, Held(_data), _json_schema, arg))

\* conf.reset()
CallReset ==
  \E res \in {reset(_schema, Held(_data), _json_schema)} : Returns("reset", None, res)

\* conf = cls(arg, schema=schema): when the constructor raises, conf stays the object it was
CallInit ==
  \E arg \in Arguments(_schema) :
    \E made \in {__init__(cls, arg, _schema)} :
       /\ _data' = IF made.err # "" THEN Held(_data) ELSE made.data
       /\ _json_schema' = IF made.err # "" THEN _json_schema ELSE made.json_schema
       /\ last' = Called("__init__", arg, made.err, made.at, Held(_data))
       /\ UNCHANGED <<cls, _schema, _extra_data>>
       /\ UNCHANGED lib

\* conf.data.dynamic_field = value, on an instance of a type that allows additional properties
SetDynamicField ==
  /\ cls = "Config"
  /\ check_allows_additional(_schema)
  /\ _data' = setattr(Held(_data), "dynamic_field", S("dynamic"))
  /\ last' = Called("setattr", S("dynamic"), "", <<>>, Held(_data))
  /\ UNCHANGED <<cls, _schema, _extra_data, _json_schema>>
  /\ UNCHANGED lib

Next ==
  \/ CallUpdate
  \/ CallOverwrite
  \/ CallReset
  \/ CallInit
  \/ SetDynamicField

Spec == Init /\ [][Next]_vars

-----------------------------------------------------------------------------
(* decorators.py, config/extra_fields.py: the overlay of a ConfigExtra and the
   AccessProxy that conf.data returns *)

\* Alias -> field name, for the fields that declare an alias
_aliases_map(self) ==
  [alias \in {fields(self.type)[j].alias : j \in DOMAIN fields(self.type)} \ {""} |-> ByExtName(self.type, alias).name]

\* What an access leaves: the error raised, the value returned, the record instance and
\* the overlay
Access(err, v, data, extra) == [err |-> err, v |-> v, data |-> data, extra |-> extra]

\* The AccessProxy of a nested record and of the overlay node of the same name
AccessProxy(data, extra) == [k |-> "proxy", data |-> data, extra |-> extra]

RECURSIVE AttributeDict__init__(_)
\* AttributeDict(**kwargs): a dict among the values becomes an AttributeDict in turn
AttributeDict__init__(kwargs) ==
  AttributeDict([key \in {it[1] : it \in Range(kwargs.items)} |->
                   Bind(ItemsMap(kwargs.items)[key], LAMBDA value :
                     IF value.k = "dict" THEN AttributeDict__init__(value) ELSE value)])

\* AttributeDict.__getattr__: a name that does not exist is created as an empty node
AttributeDict__getattr__(self, name) ==
  IF name \in DOMAIN self.m THEN Access("", self.m[name], None, self)
  ELSE Access("", AttributeDict(Empty), None, AttributeDict(Put(self.m, name, AttributeDict(Empty))))

\* AttributeDict.__setattr__
AttributeDict__setattr__(self, name, value) ==
  AttributeDict(Put(self.m, name, IF value.k = "dict" THEN AttributeDict__init__(value) ELSE value))

\* AttributeDict.__getitem__
AttributeDict__getitem__(self, key) == AttributeDict__getattr__(self, key)

_get_attr_resolve_alias(self, key) ==
  IF key \in DOMAIN _aliases_map(self) THEN Ok(getattr(self, _aliases_map(self)[key]))
  ELSE IF key \in Range(_aliases_map(self)) THEN Raise("KeyError")
  ELSE Ok(getattr(self, key))

_set_attr_resolve_alias(self, key, value) ==
  IF key \in DOMAIN _aliases_map(self) THEN Ok(setattr(self, _aliases_map(self)[key], value))
  ELSE IF key \in Range(_aliases_map(self)) THEN Raise("KeyError")
  ELSE Ok(setattr(self, key, value))

\* proxy.name: the record's attribute when it has one, a nested record wrapped together
\* with the overlay node of its name; else the overlay's attribute
AccessProxy__getattr__(self_data, self_extra_data, name) ==
  IF hasattr(self_data, name)
  THEN IF getattr(self_data, name).k = "dc"
       THEN Bind(AttributeDict__getattr__(self_extra_data, name), LAMBDA node :
              Access("", AccessProxy(getattr(self_data, name), node.v), self_data, node.extra))
       ELSE Access("", getattr(self_data, name), self_data, self_extra_data)
  ELSE Bind(AttributeDict__getattr__(self_extra_data, name), LAMBDA node :
         Access("", node.v, self_data, node.extra))

\* proxy.name = value
AccessProxy__setattr__(self_data, self_extra_data, name, value) ==
  IF hasattr(self_data, name)
  THEN Access("", None, setattr(self_data, name, value), self_extra_data)
  ELSE Access("", None, self_data, AttributeDict__setattr__(self_extra_data, name, value))

\* proxy[key]
AccessProxy__getitem__(self_data, self_extra_data, key) ==
  IF key \in DOMAIN _aliases_map(self_data) \/ hasattr(self_data, key)
  THEN Bind(_get_attr_resolve_alias(self_data, key), LAMBDA got :
         Access(got.err, got.v, self_data, self_extra_data))
  ELSE Bind(AttributeDict__getattr__(self_extra_data, key), LAMBDA node :
         Access("", node.v, self_data, node.extra))

\* proxy[key] = value
AccessProxy__setitem__(self_data, self_extra_data, key, value) ==
  IF key \in DOMAIN _aliases_map(self_data) \/ hasattr(self_data, key)
  THEN Bind(_set_attr_resolve_alias(self_data, key, value), LAMBDA done :
         Access(done.err, None, IF done.err = "" THEN done.v ELSE self_data, self_extra_data))
  ELSE Access("", None, self_data, AttributeDict__setattr__(self_extra_data, key, value))

-----------------------------------------------------------------------------
(* utils.py: merge_dicts; config/extra_fields.py: the to_dict of the overlay and of a
   ConfigExtra *)

Merged(err, v) == [err |-> err, v |-> v]

RECURSIVE Join(_)
\* ".".join(path)
Join(path) == IF Len(path) = 1 THEN path[1] ELSE path[1] \o "." \o Join(Tail(path))

RECURSIVE merge_dicts(_, _, _)
RECURSIVE MergeKeys(_, _, _, _)

\* for key in b: a key of both sides is merged when both hold a dict and is a conflict
\* when the values differ; any other key of b is added to a
MergeKeys(a, b, j, path) ==
  IF j > Len(b.items) THEN Merged("", a)
  ELSE IF b.items[j][1] \in DOMAIN a.m
  THEN IF a.m[b.items[j][1]].k = "map" /\ b.items[j][2].k = "dict"
       THEN Bind(merge_dicts(a.m[b.items[j][1]], b.items[j][2], Append(path, b.items[j][1])), LAMBDA inner :
              IF inner.err # "" THEN inner
              ELSE MergeKeys(Map([a.m EXCEPT ![b.items[j][1]] = inner.v]), b, j + 1, path))
       ELSE IF a.m[b.items[j][1]] # _asdict_inner(b.items[j][2], FALSE)
       THEN Merged("Exception", S("Conflict at " \o Join(Append(path, b.items[j][1]))))
       ELSE MergeKeys(a, b, j + 1, path)
  ELSE MergeKeys(Map(Put(a.m, b.items[j][1], _asdict_inner(b.items[j][2], FALSE))), b, j + 1, path)

\* A variant of merge_dicts in which b overrides a: a | b
merge_dicts_overriding(a, b, path) == Merged("", Map(Merge(a.m, _asdict_inner(b, FALSE).m)))

\* Merge dict b into dict a, raising an exception on conflicts
merge_dicts(a, b, path) == MergeKeys(a, b, 1, path)

RECURSIVE AttributeDict__to_dict(_)
\* AttributeDict.to_dict: a nested AttributeDict becomes a dict in turn
AttributeDict__to_dict(self) ==
  Map([key \in DOMAIN self.m |-> IF self.m[key].k = "attrdict" THEN AttributeDict__to_dict(self.m[key]) ELSE self.m[key]])

\* ConfigExtra.to_dict(extra_fields=True)
ConfigExtra__to_dict(self_data, self_extra_data) ==
  merge_dicts(asdict_with_aliases(self_data), AsData(AttributeDict__to_dict(self_extra_data)), <<>>)

-----------------------------------------------------------------------------
(* The overlay-enabled configurations and the accesses made through conf.data *)

\* The names read: the declared fields, their aliases and a name unknown to the record type
Names(t) == FieldNames(t) \cup {ExtName(fields(t)[j]) : j \in DOMAIN fields(t)} \cup {"unknown_field"}

\* The names written: those of them that do not name a field holding a record
WrittenNames(t) == {name \in Names(t) : KeyToField(t, name) \in FieldNames(t) => FieldOf(t, KeyToField(t, name)).type.k = "prim"}

\* The names of the fields that hold a record
RecordNames(t) == {name \in FieldNames(t) : FieldOf(t, name).type.k = "dataclass"}

Written == {S("new")}

Accessed(op, key, value, res) ==
  [op |-> op, arg |-> [key |-> key, value |-> value], err |-> res.err, at |-> <<>>, pre |-> Held(_data),
   ret |-> res.v, pre_extra |-> _extra_data]

\* What an access through conf.data leaves of the object; at is the path of the fields
\* read on the way to the proxy the access is made on
LeavesAt(op, at, key, value, res) ==
  /\ _data' = res.data
  /\ _extra_data' = res.extra
  /\ last' = [Accessed(op, key, value, res) EXCEPT !.at = at]
  /\ UNCHANGED <<cls, _schema, _json_schema>>
  /\ UNCHANGED lib

Leaves(op, key, value, res) == LeavesAt(op, <<>>, key, value, res)

\* conf.data.name
ProxyGetAttr ==
  \E name \in Names(_schema) :
    Leaves("getattr", name, None, AccessProxy__getattr__(Held(_data), _extra_data, name))

\* conf.data[key]
ProxyGetItem ==
  \E key \in Names(_schema) :
    Leaves("getitem", key, None, AccessProxy__getitem__(Held(_data), _extra_data, key))

\* conf.data.name = value
ProxySetAttr ==
  \E name \in WrittenNames(_schema), value \in Written :
    Leaves("setattr", name, value, AccessProxy__setattr__(Held(_data), _extra_data, name, value))

\* conf.data[key] = value
ProxySetItem ==
  \E key \in WrittenNames(_schema), value \in Written :
    Leaves("setitem", key, value, AccessProxy__setitem__(Held(_data), _extra_data, key, value))

\* conf.data.field.name = value: the write goes to the AccessProxy that the read of the
\* field returns, made of the nested record and of the overlay node of the field's name
ProxySetNestedAttr ==
  \E field \in RecordNames(_schema), value \in Written :
    \E got \in {AccessProxy__getattr__(Held(_data), _extra_data, field)} :
      /\ got.v.k = "proxy" /\ got.v.extra.k = "attrdict"
      /\ \E name \in WrittenNames(got.v.data.type) :
           \E set \in {AccessProxy__setattr__(got.v.data, got.v.extra, name, value)} :
             LeavesAt("setattr", <<field>>, name, value,
                      Access(set.err, None, setattr(got.data, field, set.data), AttributeDict(Put(got.extra.m, field, set.extra))))

\* conf = ConfigExtra(schema())
ProxyInit ==
  \E t \in ProxySchemas :
    \E made \in {__init__("ConfigExtra", Passed(InitialInstance(t)), t)} :
       /\ cls = "ConfigExtra"
       /\ _schema = t
       /\ _data = made.data
       /\ _extra_data = AttributeDict(Empty)
       /\ _json_schema = made.json_schema
       /\ last = Called("__init__", None, made.err, made.at, None)
       /\ call = None /\ stack = <<>> /\ visited = {} /\ outcome = None

ProxyNext ==
  \/ CallUpdate
  \/ CallReset
  \/ ProxyGetAttr
  \/ ProxyGetItem
  \/ ProxySetAttr
  \/ ProxySetItem
  \/ ProxySetNestedAttr

ProxySpec == ProxyInit /\ [][ProxyNext]_vars

-----------------------------------------------------------------------------
(* The library functions, called on their own: what a call is made with *)

\* What a call has come to: at = "pending" before it ran, "encoded" between the two halves
\* of a round trip, "yielding" while a generator runs, "returned" at its end
Result(at, err, v) == [at |-> at, err |-> err, v |-> v]

Pending == Result("pending", "", None)

Returned(r) == Result("returned", r.err, r.v)

RECURSIVE Concat(_)
\* The sequences of a sequence, one after the other
Concat(seqs) == IF seqs = <<>> THEN <<>> ELSE Head(seqs) \o Concat(Tail(seqs))

RECURSIVE Values(_)
RECURSIVE Instances(_)

\* Some values of an annotation
Values(field_type) ==
  CASE field_type = TInt -> {I(42), I(100)}
    [] field_type = TStr -> {S("FortyTwo!"), S("new")}
    [] field_type.k = "dataclass" -> Instances(field_type.t)
    [] field_type.k = "Union" -> UNION {IF a = TNone THEN {None} ELSE Values(a) : a \in Range(field_type.args)}
    [] field_type.k = "list" -> {List(<<>>)} \cup {List(<<v>>) : v \in Values(field_type.et)}
    [] field_type.k = "dict" -> {Map(Empty)} \cup {Map([key \in {"config1"} |-> v]) : v \in Values(field_type.vt)}
    [] OTHER -> {}

\* The instances of a record type whose fields hold these values
Instances(t) ==
  {Dc(t, 0, f, Empty) : f \in {f \in [FieldNames(t) -> UNION {Values(FieldOf(t, n).type) : n \in FieldNames(t)}] :
                                  \A n \in FieldNames(t) : f[n] \in Values(FieldOf(t, n).type)}}

\* Python's limit on the depth of recursion, scaled down
RecursionLimit == 3

RoundTripTypes == {"Config42", "AliasConfig", "NestedAliasConfig", "ConfigNested", "SchemaDict", "UnionConfig"}

IterTypes == {"TreeNode", "Container", "Ping", "ConfigNested", "SchemaDict",
              "AnnotatedItems", "OptionalItem", "OptionalItems", "OptionalFolders", "Grid", "Index"}

SchemaTypes == {"Config42", "Config42AllowAdditional", "Config42Derived", "ConfigNested", "SchemaDict", "AliasConfig",
                "MyTypedDict1", "UnionConfig", "TreeNode", "Container", "Ping"}

Optional42 == TUnion(<<TDc("Config42"), TNone>>)

AliasOr42 == TUnion(<<TDc("AliasConfig"), TDc("Config42")>>)

Unknown42 == Dict(<<(<<"new_field", S("new")>>)>>)

\* What dataclass_from_dict is called with: a union at the top, and a union inside a record
DecodeCalls ==
  {<<u, d>> : u \in {Optional42, AliasOr42}, d \in {Changed42, Unknown42, Dict(<<(<<"dict_field", I(100)>>)>>), S("new")}}
    \cup {<<TDc("ConfigNested"), Dict(<<(<<"nested_optional", d>>)>>)>> : d \in {None, Changed42, Unknown42}}
    \cup {<<TDc("UnionConfig"), Dict(<<(<<"value", d>>)>>)>> : d \in {S("new"), Changed42, Unknown42}}

\* The maps a Config is constructed from, with one field or with all of them
ConstructCalls ==
  {<<t, d>> : t \in {"Config42", "Config42AllowAdditional"}, d \in {Changed42, Dict(<<(<<"str_field", S("new")>>)>>), Dict(<<(<<"int_field", I(100)>>)>>)}}
    \cup {<<"ConfigNested", d>> : d \in {Dict(<<(<<"nested", Changed42>>), (<<"other_field", S("new")>>)>>),
                                         Dict(<<(<<"nested", Changed42>>)>>), Dict(<<(<<"other_field", S("new")>>)>>)}}
    \cup {<<"AliasConfig", d>> : d \in {Dict(<<(<<"dict_field", I(100)>>), (<<"str_field", S("new")>>)>>), Dict(<<(<<"dict_field", I(100)>>)>>)}}

\* What merge_dicts is called with: the encoding of a record and an overlay as a dict
MergeCalls ==
  {<<asdict_with_aliases(New(t, Empty).v), b>> :
     t \in {"Config42", "ConfigNested"},
     b \in {Dict(<<>>),
            Dict(<<(<<"new_field", S("new")>>)>>),
            Dict(<<(<<"int_field", I(42)>>), (<<"new_field", S("new")>>)>>),
            Dict(<<(<<"new_field", S("new")>>), (<<"int_field", I(100)>>)>>),
            Dict(<<(<<"other_field", S("new")>>), (<<"nested", Dict(<<(<<"int_field", I(100)>>)>>)>>)>>),
            Dict(<<(<<"nested", Dict(<<>>)>>)>>),
            Dict(<<(<<"nested", Dict(<<(<<"new_field", Dict(<<(<<"deep", S("new")>>)>>)>>), (<<"int_field", I(42)>>)>>)>>)>>),
            Dict(<<(<<"nested", Dict(<<(<<"new_field", S("new")>>), (<<"int_field", I(100)>>)>>)>>)>>),
            Dict(<<(<<"nested", S("new")>>)>>),
            Dict(<<(<<"other_field", Dict(<<>>)>>)>>)}}

\* The record types of the instance r that two Config objects are built from
SharedTypes == {"Config42", "ConfigNested"}

\* The record types whose default instance is validated
ValidatedTypes == {"Keyword", "Config42", "AliasConfig", "ConfigNested"}

Calls ==
  {[fn |-> "round_trip", r |-> r] : r \in UNION {Instances(t) : t \in RoundTripTypes}}
    \cup {[fn |-> "merge_dicts", a |-> c[1], b |-> c[2]] : c \in MergeCalls}
    \cup {[fn |-> "dataclass_from_dict", type |-> c[1], data |-> c[2]] : c \in DecodeCalls}
    \cup {[fn |-> "Config", schema |-> c[1], data |-> c[2]] : c \in ConstructCalls}
    \cup {[fn |-> "iter_dataclass_type", schema |-> t] : t \in IterTypes}
    \cup {[fn |-> "validate", schema |-> t, data |-> InitialInstance(t)] : t \in ValidatedTypes}
    \cup UNION {{[fn |-> "update", schema |-> t, r |-> Passed(InitialInstance(t)), patch |-> d] : d \in PatchesOf(t)} : t \in SharedTypes}
    \cup {[fn |-> "to_json_schema", type |-> TDc(t), allow_additional |-> a] : t \in SchemaTypes, a \in {None, B(TRUE), B(FALSE)}}

-----------------------------------------------------------------------------
(* type_utils.py: iter_dataclass_type, one turn of its while loop at a time *)

\* _add_type_to_stack(*t): the dataclass types among t that are not yet visited
_add_type_to_stack(t, seen) ==
  Bind(SelectSeq(t, LAMBDA item : item.k = "dataclass" /\ item.t \notin seen), LAMBDA found : [j \in DOMAIN found |-> found[j].t])

\* if origin is Annotated: field_type = get_args(field_type)[0], once
Unpacked(field_type) == IF field_type.k = "Annotated" THEN field_type.t ELSE field_type

\* What the loop over the type hints appends for one annotation, after the unpacking
FieldPushes(field_type, seen) ==
  (IF field_type.k = "Union" THEN _add_type_to_stack(field_type.args, seen)
   ELSE IF field_type.k = "list" THEN _add_type_to_stack(<<field_type.et>>, seen)
   ELSE IF field_type.k = "dict" THEN _add_type_to_stack(<<field_type.kt, field_type.vt>>, seen)
   ELSE <<>>)
    \o _add_type_to_stack(<<field_type>>, seen)

Pushes(current_type, seen) == Concat([j \in DOMAIN fields(current_type) |-> FieldPushes(Unpacked(fields(current_type)[j].type), seen)])

Popped == SubSeq(stack, 1, Len(stack) - 1)

\* A variant of the loop without "if type_id in visited: continue"
iter_dataclass_type_unchecked ==
  /\ call.fn = "iter_dataclass_type"
  /\ stack # <<>>
  /\ visited' = visited \cup {stack[Len(stack)]}
  /\ outcome' = Result("yielding", "", Append(outcome.v, stack[Len(stack)]))
  /\ stack' = Popped \o Pushes(stack[Len(stack)], visited \cup {stack[Len(stack)]})
  /\ UNCHANGED call
  /\ UNCHANGED conf

\* while stack: current_type = stack.pop(); skip it if visited, else yield it and push
\* the dataclass types of its fields
iter_dataclass_type ==
  /\ call.fn = "iter_dataclass_type"
  /\ stack # <<>>
  /\ IF stack[Len(stack)] \in visited
     THEN /\ stack' = Popped
          /\ UNCHANGED <<visited, outcome>>
     ELSE /\ visited' = visited \cup {stack[Len(stack)]}
          /\ outcome' = Result("yielding", "", Append(outcome.v, stack[Len(stack)]))
          /\ stack' = Popped \o Pushes(stack[Len(stack)], visited \cup {stack[Len(stack)]})
  /\ UNCHANGED call
  /\ UNCHANGED conf

-----------------------------------------------------------------------------
(* validation/_to_json.py: the calls of to_json_schema, one frame for each *)

RECURSIVE Converted(_)
\* The record types for which __convert_type_to_schema calls to_json_schema, in the order
\* of the calls
Converted(field_type) ==
  CASE field_type.k = "Union" -> Bind(SetToSeq(Range(field_type.args) \ {TNone}), LAMBDA allowed_types : Concat([j \in DOMAIN allowed_types |-> Converted(allowed_types[j])]))
    [] field_type.k = "NotRequired" -> Converted(field_type.t)
    [] field_type.k = "list" -> Converted(field_type.et)
    [] field_type.k = "dict" -> Converted(field_type.vt)
    [] field_type.k = "dataclass" -> <<field_type.t>>
    [] OTHER -> <<>>

Callees(type) == Concat([j \in DOMAIN fields(type) |-> Converted(fields(type)[j].type)])

\* A call of to_json_schema: its type, how allow_additional was passed (functools.cache keys
\* a call by its arguments as they were passed) and the nested call it makes next
Frame(type, passed) == [type |-> type, passed |-> passed, j |-> 1]

Key(frame) == <<frame.type, frame.passed>>

Top == stack[Len(stack)]

Advanced(frames) == [frames EXCEPT ![Len(frames)].j = @ + 1]

Wanted == Frame(Callees(Top.type)[Top.j], "keyword")

\* to_json_schema(field_type, **kwargs) from __convert_type_to_schema: the cache answers
\* for a call that has returned before, any other call runs the function
to_json_schema_call ==
  /\ call.fn = "to_json_schema"
  /\ stack # <<>>
  /\ Top.j <= Len(Callees(Top.type))
  /\ Key(Wanted) \in visited \/ Len(stack) < RecursionLimit
  /\ stack' = IF Key(Wanted) \in visited THEN Advanced(stack) ELSE Append(stack, Wanted)
  /\ UNCHANGED <<call, visited, outcome>>
  /\ UNCHANGED conf

\* The nested call would go deeper than the interpreter allows: RecursionError, through
\* every frame
to_json_schema_overflow ==
  /\ call.fn = "to_json_schema"
  /\ stack # <<>>
  /\ Top.j <= Len(Callees(Top.type))
  /\ Key(Wanted) \notin visited
  /\ Len(stack) >= RecursionLimit
  /\ stack' = <<>>
  /\ outcome' = Result("returned", "RecursionError", None)
  /\ UNCHANGED <<call, visited>>
  /\ UNCHANGED conf

\* return schema: the cache takes the schema; the outermost call returns it to the caller
to_json_schema_return ==
  /\ call.fn = "to_json_schema"
  /\ stack # <<>>
  /\ Top.j > Len(Callees(Top.type))
  /\ visited' = visited \cup {Key(Top)}
  /\ IF Len(stack) = 1
     THEN /\ stack' = <<>>
          /\ outcome' = Result("returned", "", to_json_schema(call.type.t, call.allow_additional))
     ELSE /\ stack' = Advanced(Popped)
          /\ UNCHANGED outcome
  /\ UNCHANGED call
  /\ UNCHANGED conf

-----------------------------------------------------------------------------
(* The calls that run in one step *)

\* asdict_with_aliases(r)
encode ==
  /\ call.fn = "round_trip"
  /\ outcome.at = "pending"
  /\ outcome' = Result("encoded", "", asdict_with_aliases(call.r))
  /\ UNCHANGED <<call, stack, visited>>
  /\ UNCHANGED conf

\* dataclass_from_dict(type(r), the encoding)
decode ==
  /\ call.fn = "round_trip"
  /\ outcome.at = "encoded"
  /\ outcome' = Returned(dataclass_from_dict(TDc(call.r.type), AsData(outcome.v), FALSE))
  /\ UNCHANGED <<call, stack, visited>>
  /\ UNCHANGED conf

\* dataclass_from_dict(in_type, data)
CallDecode ==
  /\ call.fn = "dataclass_from_dict"
  /\ outcome.at = "pending"
  /\ outcome' = Returned(dataclass_from_dict(call.type, call.data, FALSE))
  /\ UNCHANGED <<call, stack, visited>>
  /\ UNCHANGED conf

\* merge_dicts(a, b)
CallMerge ==
  /\ call.fn = "merge_dicts"
  /\ outcome.at = "pending"
  /\ outcome' = Returned(merge_dicts(call.a, call.b, <<>>))
  /\ UNCHANGED <<call, stack, visited>>
  /\ UNCHANGED conf

\* Config(data, schema=type)
CallConfig ==
  /\ call.fn = "Config"
  /\ outcome.at = "pending"
  /\ \E made \in {__init__("Config", call.data, call.schema)} :
       outcome' = Result("returned", made.err, made.data)
  /\ UNCHANGED <<call, stack, visited>>
  /\ UNCHANGED conf

\* validate(data, to_json_schema(schema)): the error raised and the schema document as
\* the call leaves it
CallValidate ==
  /\ call.fn = "validate"
  /\ outcome.at = "pending"
  /\ \E v \in {validate(call.data, to_json_schema(call.schema, None))} :
       outcome' = Result("returned", v.err, v.schema)
  /\ UNCHANGED <<call, stack, visited>>
  /\ UNCHANGED conf

\* What the caller sees after the update: its instance r and the data of the two Configs
Seen(r, a, b) == [r |-> r, a |-> a, b |-> b]

\* a = Config(r); b = Config(r); a.update(patch): both Configs hold r itself, _update
\* assigns to the fields of r, and a failed validation rebinds a._data to the copy
CallSharedUpdate ==
  /\ call.fn = "update"
  /\ outcome.at = "pending"
  /\ \E made \in {__init__("Config", call.r, call.schema)} :
       \E res \in {update("Config", call.schema, made.data, made.json_schema, call.patch)} :
         \E target \in {_update("Config", TDc(call.schema), made.data, call.patch, <<>>).target} :
           outcome' = Result("returned", res.err, Seen(target, res.data, target))
  /\ UNCHANGED <<call, stack, visited>>
  /\ UNCHANGED conf

\* One call, with nothing done yet
LibInit ==
  /\ cls = "Config" /\ _schema = "Config42" /\ _data = None /\ _extra_data = None
  /\ _json_schema = None /\ last = None
  /\ call \in Calls
  /\ stack = IF call.fn = "iter_dataclass_type" THEN <<call.schema>>
             ELSE IF call.fn = "to_json_schema" THEN <<Frame(call.type.t, "default")>>
             ELSE <<>>
  /\ visited = {}
  /\ outcome = IF call.fn = "iter_dataclass_type" THEN Result("yielding", "", <<>>) ELSE Pending

LibNext ==
  \/ encode
  \/ decode
  \/ CallDecode
  \/ CallConfig
  \/ CallMerge
  \/ CallSharedUpdate
  \/ CallValidate
  \/ iter_dataclass_type
  \/ to_json_schema_call
  \/ to_json_schema_overflow
  \/ to_json_schema_return

\* The generator is run to its end by its caller (list(iter_dataclass_type(schema)), or
\* the for loop of ConfigExtra.__init__): a turn of its loop that can be taken is taken
LibSpec == LibInit /\ [][LibNext]_vars /\ WF_vars(iter_dataclass_type)

-----------------------------------------------------------------------------
(* What the properties speak of *)

\* The call the object has just served
DidUpdate == last.op = "update"

\* The keys a patch names, and the value it gives one of them
Named(patch) == {patch.items[j][1] : j \in DOMAIN patch.items}

ValueFor(patch, key) == patch.items[CHOOSE j \in DOMAIN patch.items : patch.items[j][1] = key][2]

\* The attribute the first item of a patch of the root record is about
FirstKey(patch) == KeyToField(_schema, Head(patch.items)[1])

\* self.validate() raises nothing for the instance d
Validates(d) == validate(d, _json_schema).err = ""

\* The Config has no extra-field handling and its record type is not additive
Strict == cls = "Config" /\ ~check_allows_additional(_schema)

-----------------------------------------------------------------------------
(* Properties *)

\* C1: an update of a valid instance either leaves a valid instance or, when validation
\* fails, raises MultiConfigurationError and leaves to_dict() as it was before the call,
\* every field at every depth.
C1_ValidationFailureRestores ==
  (DidUpdate /\ Validates(last.pre)) =>
     /\ last.err = "" => Validates(_data)
     /\ last.err = "MultiConfigurationError" => to_dict(_data) = to_dict(last.pre)

\* C1 happens: a patch of two fields, one of them invalid, was refused and the other field
\* is as before
C1_Witness ==
  /\ DidUpdate /\ last.err = "MultiConfigurationError" /\ Validates(last.pre)
  /\ _schema = "ConfigNested"
  /\ Named(last.arg) = {"nested", "other_field"}
  /\ last.pre.f["other_field"] # S("new")
  /\ to_dict(_data) = to_dict(last.pre)

\* C2: when update on a strict Config fails with the unknown-field error, to_dict() is
\* as it was before the call.
C2_UnknownFieldRestores ==
  (DidUpdate /\ Strict /\ last.err = "AttributeError") => to_dict(_data) = to_dict(last.pre)

\* C3: when update fails because a patch value cannot be decoded (ValueError from
\* dataclass_from_dict), the instance is as it was before the call.
C3_DecodeFailureRestores ==
  (DidUpdate /\ last.err = "ValueError") => to_dict(_data) = to_dict(last.pre)

\* C4: whatever calls were made, and however they ended, the instance held validates.
C4_HeldInstanceValidates ==
  Validates(_data)

\* C5: a successful update changes only the fields the patch names; a nested record named
\* with some of its fields is the same object as before, its named fields have the patch's
\* values and its other fields, like every field not named, are as before.
C5_OnlyNamedFieldsChange ==
  (DidUpdate /\ last.err = "") =>
     /\ _data.oid = last.pre.oid
     /\ _data.x = [a \in DOMAIN _data.x |-> IF a \in Named(last.arg) THEN ValueFor(last.arg, a) ELSE last.pre.x[a]]
     /\ \A n \in DOMAIN _data.f :
          IF ExtName(FieldOf(_schema, n)) \notin Named(last.arg) THEN _data.f[n] = last.pre.f[n]
          ELSE last.pre.f[n].k = "dc" =>
                 /\ _data.f[n].oid = last.pre.f[n].oid
                 /\ \A m \in DOMAIN _data.f[n].f :
                      _data.f[n].f[m] = IF m \in Named(ValueFor(last.arg, n)) THEN ValueFor(ValueFor(last.arg, n), m)
                                        ELSE last.pre.f[n].f[m]

\* C5 happens: a patch naming one field of the nested record succeeded where that field and
\* a sibling of the nested record held other values than the defaults
C5_Witness ==
  /\ DidUpdate /\ last.err = "" /\ _schema = "ConfigNested"
  /\ Named(last.arg) = {"nested"}
  /\ last.pre.f["nested"].f["int_field"] = I(42)
  /\ last.pre.f["nested_optional"].k = "dc"
  /\ last.pre.f["other_field"] = S("new")
  /\ _data.f["nested"] = [last.pre.f["nested"] EXCEPT !.f["int_field"] = I(100)]

\* C6: when an Optional nested-record field holds an instance and update gives a map for
\* it, the field afterwards holds a new instance built from the map alone.
C6_OptionalNestedIsRebuilt ==
  (DidUpdate /\ _schema = "ConfigNested" /\ "nested_optional" \in Named(last.arg) /\ last.pre.f["nested_optional"].k = "dc"
     /\ Len(last.arg.items) = 1) =>
     /\ _data.f["nested_optional"].k = "dc"
     /\ _data.f["nested_optional"].oid = 0
     /\ _data.f["nested_optional"].f = New("Config42", ItemsMap(ValueFor(last.arg, "nested_optional").items)).v.f

\* C7: a successful update naming a sequence or mapping field leaves there the decoded
\* patch value alone: the items of the patch, no entry of before that the patch lacks, and
\* for a mapping of records new instances of the element type.
C7_CollectionsAreReplaced ==
  (DidUpdate /\ last.err = "") =>
     \A n \in DOMAIN _data.f \cap Named(last.arg) :
        /\ FieldOf(_schema, n).type.k = "list" => _data.f[n] = List(ValueFor(last.arg, n).e)
        /\ FieldOf(_schema, n).type.k = "dict" =>
             /\ DOMAIN _data.f[n].m = Named(ValueFor(last.arg, n))
             /\ \A key \in DOMAIN last.pre.f[n].m : key \notin Named(ValueFor(last.arg, n)) => key \notin DOMAIN _data.f[n].m
             /\ \A key \in DOMAIN _data.f[n].m :
                  /\ _data.f[n].m[key].k = "dc"
                  /\ _data.f[n].m[key].type = FieldOf(_schema, n).type.vt.t
                  /\ _data.f[n].m[key].oid = 0
                  /\ _data.f[n].m[key].f = New(FieldOf(_schema, n).type.vt.t, ItemsMap(ValueFor(ValueFor(last.arg, n), key).items)).v.f

\* C7 happens: the mapping held an entry that the patch lacks, and the sequence an item
C7_Witness ==
  /\ DidUpdate /\ last.err = "" /\ _schema = "SchemaDict"
  /\ Named(last.arg) = {"folders", "tags"}
  /\ "placeholder" \in DOMAIN last.pre.f["folders"].m
  /\ DOMAIN _data.f["folders"].m = {"config1", "config2"}
  /\ last.pre.f["tags"] = List(<<I(42)>>)
  /\ _data.f["tags"] = List(<<I(100)>>)

RECURSIVE LeadsToUnknown(_, _, _, _)
\* at[j], at[j + 1], ... are fields on the way down from target, each named by the patch
\* at its level, and the last is a key of the patch that target's record does not have
LeadsToUnknown(at, j, target, patch) ==
  /\ at[j] \in {KeyToField(target.type, key) : key \in Named(patch)}
  /\ IF j = Len(at) THEN ~hasattr(target, at[j])
     ELSE /\ hasattr(target, at[j])
          /\ getattr(target, at[j]).k = "dc"
          /\ ValueFor(patch, at[j]).k = "dict"
          /\ LeadsToUnknown(at, j + 1, getattr(target, at[j]), ValueFor(patch, at[j]))

\* C8: on a Config without extra-field handling, update with a key the record does not have
\* raises AttributeError, and the path its message names starts with the root type's name,
\* goes down by the field names and ends with the key.
C8_UnknownKeyNamesFullPath ==
  (DidUpdate /\ cls = "Config") =>
     /\ ~hasattr(last.pre, FirstKey(last.arg)) =>
          last.err = "AttributeError" /\ last.at = <<_schema, FirstKey(last.arg)>>
     /\ last.err = "AttributeError" =>
          /\ Len(last.at) >= 2
          /\ Head(last.at) = _schema
          /\ LeadsToUnknown(last.at, 2, last.pre, last.arg)

\* C8 happens: the unknown key sat inside the nested record
C8_Witness ==
  /\ DidUpdate /\ cls = "Config" /\ last.err = "AttributeError"
  /\ last.at = <<"ConfigNested", "nested", "new_field">>

C10_OverlayTakesUnknownKeys ==
  (DidUpdate /\ cls = "ConfigExtra") =>
     /\ \A k \in Named(last.arg) \ FieldNames(_schema) :
          /\ last.err = ""
          /\ k \in DOMAIN _extra_data.m
          /\ _extra_data.m[k] = ValueFor(last.arg, k)
          /\ ~hasattr(_data, k)
     /\ \A n \in Named(last.arg) \cap FieldNames(_schema) :
          (last.pre.f[n].k = "dc" /\ FieldOf(_schema, n).type.k = "dataclass") =>
             \A k \in Named(ValueFor(last.arg, n)) \ FieldNames(last.pre.f[n].type) :
                /\ last.err = ""
                /\ n \in DOMAIN _extra_data.m
                /\ k \in DOMAIN _extra_data.m[n].m
                /\ _extra_data.m[n].m[k] = ValueFor(ValueFor(last.arg, n), k)
                /\ ~hasattr(_data.f[n], k)

\* C11: round trip: for every record instance r, decoding the encoding of r with r's type
\* gives an instance equal to r field for field:
\* dataclass_from_dict(type(r), asdict_with_aliases(r)) == r.
C11_RoundTrip ==
  (call.fn = "round_trip" /\ outcome.at = "returned") => (outcome.err = "" /\ outcome.v = call.r)

\* The keys under which the record type takes its fields from a map: alias, else name
ExtNames(t) == {ExtName(fields(t)[j]) : j \in DOMAIN fields(t)}

\* The constructor of the base class has just been called with a map
DidConstruct == last.op = "__init__" /\ cls = "Config" /\ last.arg.k = "dict"

\* C12: for the schema whose field attr_field declares the alias dict_field, constructing a
\* Config from a map keyed by the alias succeeds and stores the value in attr_field, and
\* constructing from a map keyed by the field name fails validation.
C12_AliasAsymmetry ==
  (DidConstruct /\ _schema = "AliasConfig") =>
     /\ (Named(last.arg) \subseteq ExtNames(_schema) /\ "dict_field" \in Named(last.arg) /\ ValueFor(last.arg, "dict_field").k = "int") =>
          /\ last.err = ""
          /\ _data.f["attr_field"] = ValueFor(last.arg, "dict_field")
          /\ _data.oid = 0
     /\ "attr_field" \in Named(last.arg) =>
          /\ last.err = "MultiConfigurationError"
          /\ _data = last.pre

\* C12 happens: a construction keyed by the alias had stored 100 in attr_field, and a
\* construction keyed by attr_field was then refused
C12_Witness ==
  /\ DidConstruct /\ _schema = "AliasConfig"
  /\ Named(last.arg) = {"attr_field", "str_field"}
  /\ last.err = "MultiConfigurationError"
  /\ _data.f["attr_field"] = I(100)
  /\ _data.f["str_field"] = S("new")

\* validate_json(m, self._json_schema) raises nothing
ValidMap(m) == validate_json(_asdict_inner(m, FALSE), _json_schema).err = ""

NoDuplicates(q) == \A a, b \in DOMAIN q : a # b => q[a] # q[b]

\* C14: iter_dataclass_type terminates on self-referential and cyclic record types and
\* never yields a record type twice: for a type with a field typed as a sequence of itself
\* it yields exactly one entry, and a type referenced by several fields is yielded once.
C14_IterationEndsWithoutDuplicates ==
  /\ [](call.fn = "iter_dataclass_type" =>
          /\ NoDuplicates(outcome.v)
          /\ (call.schema = "TreeNode" /\ stack = <<>>) => outcome.v = <<"TreeNode">>)
  /\ (call.fn = "iter_dataclass_type") ~> (stack = <<>>)

\* C14 happens: the iteration over the type that three fields refer to has ended, each
\* type yielded once, after the type had been on the stack three times
C14_Witness ==
  /\ call.fn = "iter_dataclass_type" /\ call.schema = "Container"
  /\ stack = <<>>
  /\ outcome.v = <<"Container", "Shared">>


\* C15: compiling the schema of a record type ends with a schema, for every record type
\* of the graph, a self-referential one included: the call never ends in an error, and
\* no record type is entered while a call for it is still running
C15_CompilationReturnsSchema ==
  call.fn = "to_json_schema" =>
    /\ outcome.at = "returned" => outcome.err = ""
    /\ \A a, b \in DOMAIN stack : a # b => stack[a].type # stack[b].type


\* What the declared type alone says: Optional (a union with None) or NotRequired
OptionalByType(field_type) ==
  \/ field_type.k = "Union" /\ TNone \in Range(field_type.args)
  \/ field_type.k = "NotRequired"

RequiredNames(t) == {ExtName(fields(t)[j]) : j \in {h \in DOMAIN fields(t) : ~OptionalByType(fields(t)[h].type)}}

HasDefault(t, name) == DefaultOf(t, name) # MISSING

\* C16: the compiled schema lists a field in required exactly when its declared type is
\* neither a union containing None nor wrapped in NotRequired, whether or not the field
\* has a default; and constructing a Config from a map that omits such a field fails
\* with the aggregate validation error
C16_RequiredByTypeOnly ==
  /\ (call.fn = "to_json_schema" /\ outcome.at = "returned" /\ outcome.err = "") =>
       {r.s : r \in Range(outcome.v.m["required"].e)} = RequiredNames(call.type.t)
  /\ (call.fn = "Config" /\ outcome.at = "returned" /\ ~(RequiredNames(call.schema) \subseteq Named(call.data))) =>
       outcome.err = "MultiConfigurationError"

\* A Config over Config42 was constructed from {str_field: "new"}: int_field has the
\* default 42 and is omitted, and the construction failed
C16_Witness ==
  /\ call.fn = "Config" /\ call.schema = "Config42" /\ Named(call.data) = {"str_field"}
  /\ HasDefault("Config42", "int_field")
  /\ outcome.at = "returned" /\ outcome.err = "MultiConfigurationError"


\* C17: with no override given, the compiled root schema has additionalProperties true
\* exactly when the record type or one of its base classes is marked allow-additional
C17_AllowAdditionalInherited ==
  (call.fn = "to_json_schema" /\ call.allow_additional = None /\ outcome.at = "returned" /\ outcome.err = "") =>
    outcome.v.m["additionalProperties"] = B(__mro__(call.type.t) \cap Decorated # {})


\* The alternatives of a union other than None, in declaration order
Alternatives(union) == SelectSeq(union.args, LAMBDA arg : arg # TNone)

Decodes(arg, data) == _dataclass_from_dict_inner(arg, data, FALSE).err = ""

FirstDecoding(union, data) ==
  CHOOSE j \in DOMAIN Alternatives(union) :
    /\ Decodes(Alternatives(union)[j], data)
    /\ \A h \in 1..(j - 1) : ~Decodes(Alternatives(union)[h], data)

\* What decoding data against the union has to give: the result of the first alternative
\* that decodes, an error when there is none
UnionAnswer(union, data, err, v) ==
  IF \E j \in DOMAIN Alternatives(union) : Decodes(Alternatives(union)[j], data)
  THEN err = "" /\ v = _dataclass_from_dict_inner(Alternatives(union)[FirstDecoding(union, data)], data, FALSE).v
  ELSE err # ""

\* The call decodes a map with one key, of a field whose type is a union
AtField ==
  /\ call.fn = "dataclass_from_dict" /\ call.type.k = "dataclass"
  /\ call.data.k = "dict" /\ Len(call.data.items) = 1
  /\ call.data.items[1][1] \in FieldNames(call.type.t)
  /\ FieldOf(call.type.t, call.data.items[1][1]).type.k = "Union"

\* C18: decoding a value other than None against a union, at the top level or as the
\* type of a field, returns the result of the first alternative that decodes, and fails
\* with an error when no alternative decodes
C18_UnionDecoding ==
  /\ (call.fn = "dataclass_from_dict" /\ call.type.k = "Union" /\ outcome.at = "returned") =>
       UnionAnswer(call.type, call.data, outcome.err, outcome.v)
  /\ (AtField /\ call.data.items[1][2] # None /\ outcome.at = "returned") =>
       UnionAnswer(FieldOf(call.type.t, call.data.items[1][1]).type, call.data.items[1][2], outcome.err,
                   IF outcome.err = "" THEN outcome.v.f[call.data.items[1][1]] ELSE None)


\* The access just made on conf.data itself
DidAccess(op) == last.op = op /\ last.at = <<>>

Declared(t) == FieldNames(t) \cup ExtNames(t)

\* The name was neither declared by the record type nor in the overlay when the access began
WasUnknown == last.arg.key \notin Declared(_schema) /\ last.arg.key \notin DOMAIN last.pre_extra.m

\* C19: an attribute read of a name that is neither a schema field nor in the overlay
\* creates and returns an empty overlay node, while a subscript read of such a key fails
\* with a lookup error and leaves the overlay as it was
C19_OverlayReadAsymmetry ==
  /\ (DidAccess("getattr") /\ WasUnknown) =>
       /\ last.err = ""
       /\ last.ret = AttributeDict(Empty)
       /\ _extra_data = AttributeDict(Put(last.pre_extra.m, last.arg.key, AttributeDict(Empty)))
  /\ (DidAccess("getitem") /\ WasUnknown) =>
       /\ last.err \in {"KeyError", "AttributeError"}
       /\ _extra_data = last.pre_extra

\* The record type a field type holds: that of a dataclass annotation, alone or in a union
RecordsOf(field_type) ==
  IF field_type.k = "dataclass" THEN {field_type.t}
  ELSE IF field_type.k = "Union" THEN {arg.t : arg \in {a \in Range(field_type.args) : a.k = "dataclass"}}
  ELSE {}

RECURSIVE Exclusive(_, _)
\* No key of the overlay node is a field name or an alias of the record type at its
\* position; the node kept for a field that holds a record is looked into instead
Exclusive(t, node) ==
  \A key \in DOMAIN node.m :
    IF key \in Declared(t) /\ RecordsOf(FieldOf(t, KeyToField(t, key)).type) # {} /\ node.m[key].k = "attrdict"
    THEN \A nested \in RecordsOf(FieldOf(t, KeyToField(t, key)).type) : Exclusive(nested, node.m[key])
    ELSE key \notin Declared(t)

\* C20: after any sequence of attribute writes, subscript writes and updates through a
\* ConfigExtra, no key holding a value in the overlay is a field name or an alias of the
\* record type at its position, and a write by a declared field name or by its alias has
\* landed in the record instance
C20_OverlayExclusive ==
  /\ Exclusive(_schema, _extra_data)
  /\ ((DidAccess("setattr") \/ DidAccess("setitem")) /\ last.arg.key \in Declared(_schema)) =>
       /\ last.err = ""
       /\ getattr(_data, KeyToField(_schema, last.arg.key)) = last.arg.value
       /\ _extra_data = last.pre_extra


\* A dict as it is compared
Plain(d) == _asdict_inner(d, FALSE)

RECURSIVE Conflicts(_, _)
\* The paths that both maps have, through maps on both sides, at which they do not both
\* hold a map and hold different values
Conflicts(a, b) ==
  UNION {IF a.m[key].k = "map" /\ b.m[key].k = "map"
         THEN {<<key>> \o at : at \in Conflicts(a.m[key], b.m[key])}
         ELSE IF a.m[key] # b.m[key] THEN {<<key>>} ELSE {} : key \in DOMAIN a.m \cap DOMAIN b.m}

RECURSIVE IsUnion(_, _, _)
\* r has the keys of a and of b, with the value of the side that has the key and with the
\* union of the two maps where both sides hold a map
IsUnion(r, a, b) ==
  /\ r.k = "map"
  /\ DOMAIN r.m = DOMAIN a.m \cup DOMAIN b.m
  /\ \A key \in DOMAIN r.m :
       IF key \notin DOMAIN b.m THEN r.m[key] = a.m[key]
       ELSE IF key \notin DOMAIN a.m THEN r.m[key] = b.m[key]
       ELSE IF a.m[key].k = "map" /\ b.m[key].k = "map" THEN IsUnion(r.m[key], a.m[key], b.m[key])
       ELSE r.m[key] = a.m[key]

\* C21: merge_dicts returns the key-wise union of the two maps, merged in turn where both
\* sides hold a map, when no shared path holds different values; otherwise it raises a
\* conflict error that names the dotted path of such a difference
C21_MergeIsUnionOrConflict ==
  (call.fn = "merge_dicts" /\ outcome.at = "returned") =>
    IF Conflicts(call.a, Plain(call.b)) = {}
    THEN outcome.err = "" /\ IsUnion(outcome.v, call.a, Plain(call.b))
    ELSE /\ outcome.err = "Exception"
         /\ outcome.v \in {S("Conflict at " \o Join(at)) : at \in Conflicts(call.a, Plain(call.b))}

\* The overlay of a ConfigNested gave nested.int_field another value than the record has
C21_Witness ==
  /\ call.fn = "merge_dicts" /\ outcome.at = "returned"
  /\ outcome.err = "Exception" /\ outcome.v = S("Conflict at nested.int_field")


\* C22: an update of a ConfigExtra whose patch names keys the schema does not declare
\* and that raises leaves the overlay and the record instance as they were before the
\* call: extra_data.to_dict() and the encoding of the record are what they were
C22_FailedUpdateRestoresOverlayAndRecord ==
  [][(cls = "ConfigExtra" /\ last'.op = "update" /\ last'.err # "" /\ ~(Named(last'.arg) \subseteq Declared(_schema))) =>
       /\ AttributeDict__to_dict(_extra_data') = AttributeDict__to_dict(_extra_data)
       /\ to_dict(_data') = to_dict(_data)]_vars


\* A value was just written through conf.data.field under a name that the record of the
\* field does not declare, and the field declares an alias
WroteExtraUnderAliased ==
  /\ last.op = "setattr" /\ Len(last.at) = 1 /\ last.err = ""
  /\ FieldOf(_schema, last.at[1]).alias # ""
  /\ last.arg.key \notin Declared(getattr(_data, last.at[1]).type)

\* The overlay holds, under the key, a node that holds the value under the name
HoldsUnder(overlay, key, name, value) ==
  /\ key \in DOMAIN overlay.m
  /\ overlay.m[key].k \in {"attrdict", "map"}
  /\ name \in DOMAIN overlay.m[key].m
  /\ overlay.m[key].m[name] = value

\* C23: an extra field written under a nested record field that declares an alias is
\* stored in the overlay under the alias, attribute access by the field name and
\* subscript access by the alias reach the same overlay node, and to_dict() has the
\* extra field inside the map of the alias
C23_NestedExtraUnderAlias ==
  WroteExtraUnderAliased =>
    /\ HoldsUnder(_extra_data, FieldOf(_schema, last.at[1]).alias, last.arg.key, last.arg.value)
    /\ AccessProxy__getitem__(_data, _extra_data, FieldOf(_schema, last.at[1]).alias).v.k = "proxy"
    /\ AccessProxy__getitem__(_data, _extra_data, FieldOf(_schema, last.at[1]).alias).v.extra
         = AccessProxy__getattr__(_data, _extra_data, last.at[1]).v.extra
    /\ ConfigExtra__to_dict(_data, _extra_data).err = ""
    /\ HoldsUnder(ConfigExtra__to_dict(_data, _extra_data).v, FieldOf(_schema, last.at[1]).alias, last.arg.key, last.arg.value)

\* The record types inside an annotation, under wrappers of any depth
RECURSIVE RecordsIn(_)
RecordsIn(type) ==
  CASE type.k = "dataclass" -> {type.t}
    [] type.k \in {"Union", "typing.Union"} -> UNION {RecordsIn(type.args[j]) : j \in DOMAIN type.args}
    [] type.k = "list" -> RecordsIn(type.et)
    [] type.k = "dict" -> RecordsIn(type.kt) \cup RecordsIn(type.vt)
    [] type.k \in {"Annotated", "NotRequired"} -> RecordsIn(type.t)
    [] OTHER -> {}

\* The record types the fields of a record type refer to
Referred(t) == UNION {RecordsIn(fields(t)[j].type) : j \in DOMAIN fields(t)}

\* The record types reachable from these through field types
RECURSIVE ReachableFrom(_)
ReachableFrom(types) ==
  IF UNION {Referred(t) : t \in types} \subseteq types THEN types
  ELSE ReachableFrom(types \cup UNION {Referred(t) : t \in types})

\* C24: iter_dataclass_type is complete: when the iteration has ended it has yielded
\* every record type reachable from the root through field types, whatever the nesting
\* of the wrappers on the way (Optional in either union syntax, Annotated, a sequence or
\* mapping inside an Optional, a sequence of sequences, a mapping of sequences).
C24_IterationIsComplete ==
  (call.fn = "iter_dataclass_type" /\ stack = <<>>) => Range(outcome.v) = ReachableFrom({call.schema})

\* C25: constructing a ConfigExtra from a valid map and a schema yields a configuration
\* whose record instance is an instance of the schema type holding the map's values for
\* the declared fields, and only the keys the schema does not declare are in the overlay.
C25_OverlayConfigFromMap ==
  (cls = "ConfigExtra" /\ last.op = "__init__" /\ last.arg.k = "dict" /\ ValidMap(last.arg)) =>
     /\ last.err = ""
     /\ _data.k = "dc" /\ _data.type = _schema
     /\ \A key \in Named(last.arg) \cap ExtNames(_schema) :
          to_dict(_data).m[key] = _asdict_inner(ValueFor(last.arg, key), FALSE)
     /\ DOMAIN _extra_data.m = Named(last.arg) \ ExtNames(_schema)

\* C26: a Config does not share its record instance with another owner: when two Config
\* objects are built from the same record instance r, an update on one of them is not
\* observable through the other or through r, and a failed update leaves r as it was
\* before the call.
C26_RecordInstanceNotShared ==
  (call.fn = "update" /\ outcome.at = "returned") =>
     /\ outcome.v.r = call.r
     /\ outcome.v.b = call.r

\* C27: validation never changes the compiled schema: the document that to_json_schema
\* returns for the record type, which the Config holds as _json_schema, has the same
\* content after any validate / validate_json call and Config operation as when it was
\* compiled.
C27_ValidationLeavesSchema ==
  _json_schema = to_json_schema(_schema, None)

\* C28: reads do not change what a ConfigExtra exports: to_dict() returns the same map
\* after an attribute read through data as before it, whether the name read is a declared
\* primitive field, a declared nested record field, or a name that is neither in the
\* schema nor in the overlay.
C28_ReadsLeaveExport ==
  (DidAccess("getattr") /\ (last.arg.key \in FieldNames(_schema) \/ last.arg.key \notin Declared(_schema))) =>
     ConfigExtra__to_dict(_data, _extra_data) = ConfigExtra__to_dict(last.pre, last.pre_extra)

\* C29: reset() returns a configuration to the type defaults entirely: after reset(),
\* to_dict() equals the encoding of a default-constructed record of the schema type, with
\* no extra field left over from earlier update or attribute-write calls, for the
\* overlay-enabled ConfigExtra as for the base Config.
C29_ResetReturnsToDefaults ==
  [][(cls = "ConfigExtra" /\ last.op \in {"setattr", "setitem"} /\ last.err = "" /\ last'.op = "reset" /\ last'.err = "") =>
       ConfigExtra__to_dict(_data', _extra_data') = Merged("", to_dict(New(_schema, Empty).v))]_vars

\* C30: making a schema null-tolerant changes only the type keyword of schema nodes: also
\* for a record type that declares a field under the name of a schema keyword such as
\* type, every entry of the properties map is a schema node after the validation, and
\* validating data that is valid for the record type succeeds.
C30_NullToleranceKeepsProperties ==
  (call.fn = "validate" /\ outcome.at = "returned") =>
     /\ \A key \in DOMAIN outcome.v.m["properties"].m : outcome.v.m["properties"].m[key].k = "map"
     /\ outcome.err = ""

====
